---- MODULE Spec2Model ----
(***************************************************************************)
(* A model of core/server/src/api_server/rest.rs: the REST gateway of the  *)
(* server.  It holds the network-status cache (one updater thread, many    *)
(* reading handlers, an RwLock around the snapshot), the storage           *)
(* connection pool as the handlers and the updater use it, the request     *)
(* handlers with their validation and error mapping, and the hex/prefix    *)
(* parsing of addresses and hashes.                                        *)
(***************************************************************************)
EXTENDS Integers, Sequences, FiniteSets, TLC

(***************************************************************************)
(* Bounds of the model.                                                    *)
(***************************************************************************)
\* The chain grows up to this many blocks.
MaxBlock == 1
\* Executed transactions carried by each committed block.
TxPerBlock == 2
\* Connections of the storage pool.
PoolSize == 1
\* HTTP worker threads reading the network status concurrently.
NumWorkers == 2

VARIABLES
    db,              \* the storage backend's chain state (external)
    extConns,        \* pool connections held by other components of the server
    network_status,  \* the NetworkStatus inside SharedNetworkStatus's RwLock
    wlock,           \* TRUE while the RwLock is write-locked
    upd,             \* the rest-state-updater thread: position and locals
    panic_notify,    \* TRUE once ThreadPanicNotify reported the updater's panic
    wk,              \* the HTTP workers: the request each serves and its answer
    parse            \* a call of try_parse_address or try_parse_hash on its own

vars == <<db, extConns, network_status, wlock, upd, panic_notify, wk, parse>>

(***************************************************************************)
(* Result<T, E> and Option<T> values.                                      *)
(***************************************************************************)
Ok(v) == [tag |-> "ok", val |-> v]
Err == [tag |-> "err", val |-> 0]
\* A storage call of the current cycle that has not been made yet.
NotRead == [tag |-> "none", val |-> 0]

\* An unwrap_or that falls back to 1 whatever default it is given.
UnwrapOrOne(r, d) == IF r.tag = "ok" THEN r.val ELSE 1

\* Result::unwrap_or / Option::unwrap_or
UnwrapOr(r, d) == IF r.tag = "ok" THEN r.val ELSE d

\* Option<T>
Some(v) == [tag |-> "some", val |-> v]
NoneOpt == [tag |-> "none", val |-> 0]

\* Option::ok_or_else / Result::ok as far as the tag goes.
IsSome(o) == o.tag = "some"

\* No parse has been asked for.
NoParse == [pc |-> "idle", fn |-> "none", query |-> <<>>, result |-> NoneOpt]

(***************************************************************************)
(* Strings.  A &str is its UTF-8 bytes: an ASCII character is one byte,    *)
(* written as that character; the two-byte character e-acute is the lead  *)
(* byte "C3" followed by the continuation byte "A9".                       *)
(***************************************************************************)
ContinuationBytes == {"A9"}

EAcute == <<"C3", "A9">>

\* n copies of the byte c
Rep(c, n) == [i \in 1..n |-> c]

\* str::len(): the number of bytes
StrLen(s) == Len(s)

\* str::starts_with
StartsWith(s, p) == Len(s) >= Len(p) /\ SubSeq(s, 1, Len(p)) = p

\* str::is_char_boundary
IsCharBoundary(s, i) ==
    \/ i = 0
    \/ i = Len(s)
    \/ i < Len(s) /\ s[i + 1] \notin ContinuationBytes

\* &s[i..]: panics when i is past the end or inside a character.
SliceFrom(s, i) ==
    IF i <= Len(s) /\ IsCharBoundary(s, i)
    THEN [panic |-> FALSE, str |-> SubSeq(s, i + 1, Len(s))]
    ELSE [panic |-> TRUE, str |-> <<>>]

LowerHex == <<"0", "1", "2", "3", "4", "5", "6", "7", "8", "9", "a", "b", "c", "d", "e", "f">>

UpperHex == <<"0", "1", "2", "3", "4", "5", "6", "7", "8", "9", "A", "B", "C", "D", "E", "F">>

\* hex's val(): the value of a hex digit, -1 for any other byte
HexVal(c) ==
    IF \E i \in 1..16 : LowerHex[i] = c
    THEN (CHOOSE i \in 1..16 : LowerHex[i] = c) - 1
    ELSE IF \E i \in 1..16 : UpperHex[i] = c
         THEN (CHOOSE i \in 1..16 : UpperHex[i] = c) - 1
         ELSE -1

\* hex::decode: an odd number of bytes or a byte that is no hex digit is an
\* error; otherwise each pair of digits is one byte.
HexDecode(s) ==
    IF Len(s) % 2 # 0 THEN Err
    ELSE IF \E i \in 1..Len(s) : HexVal(s[i]) < 0 THEN Err
    ELSE Ok([i \in 1..(Len(s) \div 2) |-> 16 * HexVal(s[2 * i - 1]) + HexVal(s[2 * i])])

Str0x == <<"0", "x">>

StrSyncBl == <<"s", "y", "n", "c", "-", "b", "l", ":">>

StrSyncTx == <<"s", "y", "n", "c", "-", "t", "x", ":">>

\* A remove_prefix that strips prefixes for as long as it finds one.
RECURSIVE RemovePrefixRepeatedly(_)
RemovePrefixRepeatedly(query) ==
    IF StartsWith(query, Str0x) THEN RemovePrefixRepeatedly(SliceFrom(query, 2).str)
    ELSE IF StartsWith(query, StrSyncBl) \/ StartsWith(query, StrSyncTx)
         THEN RemovePrefixRepeatedly(SliceFrom(query, 8).str)
         ELSE [panic |-> FALSE, str |-> query]

\* remove_prefix
RemovePrefix(query) ==
    IF StartsWith(query, Str0x) THEN SliceFrom(query, 2)
    ELSE IF StartsWith(query, StrSyncBl) \/ StartsWith(query, StrSyncTx)
         THEN SliceFrom(query, 8)
         ELSE [panic |-> FALSE, str |-> query]

ADDRESS_SIZE == 20

HASH_SIZE == 32

\* A panic in place of a returned value.
Panicked == [tag |-> "panic", val |-> 0]

\* The body shared by try_parse_address and try_parse_hash.
TryParseBytes(query, size) ==
    LET q == RemovePrefix(query)
    IN IF q.panic THEN Panicked
       ELSE LET b == HexDecode(q.str)
            IN IF b.tag # "ok" THEN NoneOpt
               ELSE IF Len(b.val) = size THEN Some(b.val) ELSE NoneOpt

\* try_parse_address
TryParseAddress(query) == TryParseBytes(query, ADDRESS_SIZE)

\* try_parse_hash
TryParseHash(query) == TryParseBytes(query, HASH_SIZE)

(***************************************************************************)
(* The storage backend: a chain of committed blocks, a prefix of which is  *)
(* verified.  Every query is fallible; when it succeeds it answers from    *)
(* the chain state.                                                        *)
(***************************************************************************)
Blocks == 0..MaxBlock

DbStates == {d \in [committed : Blocks, verified : Blocks] : d.verified <= d.committed}

\* block_schema().get_last_verified_block()
GetLastVerifiedBlock(d) == d.verified
\* block_schema().get_last_committed_block()
GetLastCommittedBlock(d) == d.committed
\* stats_schema().count_total_transactions()
CountTotalTransactions(d) == TxPerBlock * d.committed
\* stats_schema().count_outstanding_proofs(after_block): the transactions of
\* the blocks after after_block
CountOutstandingProofs(d, after_block) ==
    IF d.committed > after_block THEN TxPerBlock * (d.committed - after_block) ELSE 0

\* The outcome of a fallible storage query whose answer would be v.
QueryResults(v) == {Ok(v), Err}

\* The chain commits a block.
CommitBlock ==
    /\ db.committed < MaxBlock
    /\ db' = [db EXCEPT !.committed = @ + 1]
    /\ UNCHANGED <<extConns, network_status, wlock, upd, panic_notify, wk, parse>>

\* The chain verifies its next committed block.
VerifyBlock ==
    /\ db.verified < db.committed
    /\ db' = [db EXCEPT !.verified = @ + 1]
    /\ UNCHANGED <<extConns, network_status, wlock, upd, panic_notify, wk, parse>>

(***************************************************************************)
(* The connection pool.                                                    *)
(***************************************************************************)
\* The HTTP workers of the run.
Workers == DOMAIN wk

UpdaterConns == IF upd.conn THEN 1 ELSE 0

WorkerConns == Cardinality({w \in Workers : wk[w].conn})

FreeConns == PoolSize - extConns - UpdaterConns - WorkerConns

\* Another component of the server takes a connection of the shared pool.
ExtAcquire ==
    /\ FreeConns > 0
    /\ extConns' = extConns + 1
    /\ UNCHANGED <<db, network_status, wlock, upd, panic_notify, wk, parse>>

\* It gives the connection back.
ExtRelease ==
    /\ extConns > 0
    /\ extConns' = extConns - 1
    /\ UNCHANGED <<db, network_status, wlock, upd, panic_notify, wk, parse>>

(***************************************************************************)
(* NetworkStatus and SharedNetworkStatus.                                  *)
(***************************************************************************)
None == "None"

\* A default that is not all zeros.
DefaultNetworkStatusNonZero ==
    [next_block_at_max |-> "None", last_committed |-> 1, last_verified |-> 0,
     total_transactions |-> 0, outstanding_txs |-> 0]

\* NetworkStatus::default() inside SharedNetworkStatus::default()
DefaultNetworkStatus ==
    [next_block_at_max |-> None, last_committed |-> 0, last_verified |-> 0,
     total_transactions |-> 0, outstanding_txs |-> 0]

\* The fields of NetworkStatus, in the order the derived Clone copies them.
StatusFields ==
    <<"next_block_at_max", "last_committed", "last_verified",
      "total_transactions", "outstanding_txs">>

(***************************************************************************)
(* An HTTP worker.  pc is "idle" between two requests, "locked" while      *)
(* it holds the snapshot's read lock, "query" while it holds a storage     *)
(* connection, "done" once the handler returned and "panicked" when the    *)
(* handler panicked.  mode, queries and arg record how the connection was  *)
(* asked for, how many storage queries were issued and what the query was  *)
(* given; seen records every whole value the snapshot held while the       *)
(* worker was reading it, and stale that a snapshot was published after    *)
(* the worker's read returned.                                             *)
(***************************************************************************)
IdleWorker ==
    [pc |-> "idle", kind |-> "none", req |-> <<>>, conn |-> FALSE,
     mode |-> "none", queries |-> 0, arg |-> <<>>, sres |-> NotRead,
     status |-> 0, body |-> <<>>,
     k |-> 0, copy |-> DefaultNetworkStatus, seen |-> {}, stale |-> FALSE]

\* A worker is free to take a request.
Ready(w) == wk[w].pc = "idle"

\* The response is sent and the worker turns to the next request.
WorkerNextRequest(w) ==
    /\ wk[w].pc = "done"
    /\ wk' = [wk EXCEPT ![w] = IdleWorker]
    /\ UNCHANGED <<db, extConns, network_status, wlock, upd, panic_notify, parse>>

(***************************************************************************)
(* handle_get_network_status: SharedNetworkStatus::read, then 200.         *)
(***************************************************************************)
\* RwLock::read(): granted when no writer holds the lock.
CanReadLock == ~wlock

\* A status handler that asks for a storage connection before it reads
\* the snapshot.
StatusReadLockViaStorage(w) ==
    /\ Ready(w)
    /\ CanReadLock
    /\ wk' = [wk EXCEPT ![w] =
                 IF FreeConns > 0
                 THEN [IdleWorker EXCEPT !.pc = "locked", !.kind = "status", !.conn = TRUE,
                                         !.mode = "fragile", !.seen = {network_status}]
                 ELSE [IdleWorker EXCEPT !.pc = "done", !.kind = "status",
                                         !.mode = "fragile", !.status = 408]]
    /\ UNCHANGED <<db, extConns, network_status, wlock, upd, panic_notify, parse>>

\* self.0.as_ref().read().unwrap()
StatusReadLock(w) ==
    /\ Ready(w)
    /\ CanReadLock
    /\ wk' = [wk EXCEPT ![w] = [IdleWorker EXCEPT !.pc = "locked", !.kind = "status",
                                                  !.seen = {network_status}]]
    /\ UNCHANGED <<db, extConns, network_status, wlock, upd, panic_notify, parse>>

\* .clone(): the next field of the locked value is copied.
StatusCloneField(w) ==
    /\ wk[w].pc = "locked"
    /\ wk[w].k < Len(StatusFields)
    /\ LET f == StatusFields[wk[w].k + 1]
       IN wk' = [wk EXCEPT ![w].k = @ + 1, ![w].copy[f] = network_status[f]]
    /\ UNCHANGED <<db, extConns, network_status, wlock, upd, panic_notify, parse>>

\* A read() that takes the value out of the lock (std::mem::take) and
\* leaves the default behind, instead of returning a clone.
StatusRespondTakingSnapshot(w) ==
    /\ wk[w].pc = "locked"
    /\ wk[w].k = Len(StatusFields)
    /\ wk' = [wk EXCEPT ![w].pc = "done", ![w].status = 200, ![w].body = wk[w].copy]
    /\ network_status' = DefaultNetworkStatus
    /\ UNCHANGED <<db, extConns, wlock, upd, panic_notify, parse>>

\* The read guard is dropped, read() returns the clone and the handler
\* answers Ok(HttpResponse::Ok().json(network_status)).
StatusRespond(w) ==
    /\ wk[w].pc = "locked"
    /\ wk[w].k = Len(StatusFields)
    /\ wk' = [wk EXCEPT ![w].pc = "done", ![w].status = 200, ![w].body = wk[w].copy]
    /\ UNCHANGED <<db, extConns, network_status, wlock, upd, panic_notify, parse>>

(***************************************************************************)
(* AppState::access_storage and what the handlers share.                   *)
(***************************************************************************)
othersOfWorkers == <<db, extConns, network_status, wlock, upd, panic_notify, parse>>

\* A handler that took its connection with ConnectionPool::access_storage.
AccessStorageBlocking == "blocking"

\* The pool method access_storage calls: access_storage_fragile.
AccessStorageMode == "fragile"

\* data.access_storage()?: in the fragile mode the connection is taken when
\* one is free and the handler returns 408 at once when none is; in the
\* blocking mode the thread waits for one.
AccessStorage(rec) ==
    IF AccessStorageMode = "fragile"
    THEN IF FreeConns > 0
         THEN [rec EXCEPT !.pc = "query", !.conn = TRUE, !.mode = "fragile"]
         ELSE [rec EXCEPT !.pc = "done", !.mode = "fragile", !.status = 408]
    ELSE IF FreeConns > 0
         THEN [rec EXCEPT !.pc = "query", !.conn = TRUE, !.mode = "blocking"]
         ELSE [rec EXCEPT !.pc = "waiting", !.mode = "blocking"]

\* The request a worker starts on.
Request(kind, req) == [IdleWorker EXCEPT !.kind = kind, !.req = req]

\* return Err(HttpResponse::...().finish().into()) before any storage call
Reject(rec, code) == [rec EXCEPT !.pc = "done", !.status = code]

\* A handler that returns without giving its connection back.
AnsweredKeepingConn(rec, r, code, body) ==
    [rec EXCEPT !.pc = "done", !.queries = @ + 1, !.sres = r,
                !.status = code, !.body = body]

\* The handler's storage query returned r and the handler returns; the
\* StorageProcessor is dropped with the handler's frame.
Answered(rec, r, code, body) ==
    [rec EXCEPT !.pc = "done", !.conn = FALSE, !.queries = @ + 1, !.sres = r,
                !.status = code, !.body = body]

Querying(w, kind) == wk[w].pc = "query" /\ wk[w].kind = kind

(***************************************************************************)
(* handle_get_testnet_config                                               *)
(***************************************************************************)
HandleGetTestnetConfig(w) ==
    /\ Ready(w)
    /\ wk' = [wk EXCEPT ![w] = [Request("testnet_config", <<>>) EXCEPT
                                   !.pc = "done", !.status = 200,
                                   !.body = "contract_address"]]
    /\ UNCHANGED othersOfWorkers

(***************************************************************************)
(* handle_get_account_state                                                *)
(***************************************************************************)
AddressQueries ==
    {Str0x \o Rep("1", 2 * ADDRESS_SIZE),
     Str0x \o Rep("1", 2 * ADDRESS_SIZE - 2),
     <<"z", "z">>}

Account(address, nonce) == [address |-> address, nonce |-> nonce]

\* Account::default(): the zero address, nothing else set
DefaultAccount == Account(Rep(0, ADDRESS_SIZE), 0)

\* What account_state_by_address can hold for an address: the committed and
\* the verified record, each there or not.
StoredAccountStates(address) ==
    [committed : {NoneOpt, Some(<<1, Account(address, 2)>>)},
     verified : {NoneOpt, Some(<<1, Account(address, 1)>>)}]

\* the closure empty_state
EmptyState(address) == [DefaultAccount EXCEPT !.address = address]

\* A response that answers the verified record as commited and the
\* committed one as verified.
AccountStateResponseSwapped(stored, address) ==
    LET id == IF IsSome(stored.committed) THEN Some(stored.committed.val[1]) ELSE NoneOpt
        committed == IF IsSome(stored.committed) THEN stored.committed.val[2]
                     ELSE EmptyState(address)
        verified == IF IsSome(stored.verified) THEN stored.verified.val[2]
                    ELSE EmptyState(address)
    IN [id |-> id, commited |-> verified, verified |-> committed]

\* The block that builds (id, verified, commited) and the response from it.
AccountStateResponse(stored, address) ==
    LET id == IF IsSome(stored.committed) THEN Some(stored.committed.val[1]) ELSE NoneOpt
        committed == IF IsSome(stored.committed) THEN stored.committed.val[2]
                     ELSE EmptyState(address)
        verified == IF IsSome(stored.verified) THEN stored.verified.val[2]
                    ELSE EmptyState(address)
        tuple == <<id, verified, committed>>
    IN [id |-> tuple[1], commited |-> tuple[3], verified |-> tuple[2]]

HandleGetAccountState(w) ==
    /\ Ready(w)
    /\ \E q \in AddressQueries :
          LET rec == Request("account_state", q)
              a == TryParseAddress(q)
          IN wk' = [wk EXCEPT ![w] =
                       IF a.tag = "panic" THEN [rec EXCEPT !.pc = "panicked"]
                       ELSE IF ~IsSome(a) THEN Reject(rec, 400)
                       ELSE AccessStorage([rec EXCEPT !.arg = a.val])]
    /\ UNCHANGED othersOfWorkers

AccountStateQuery(w) ==
    /\ Querying(w, "account_state")
    /\ \E r \in {Err} \cup {Ok(st) : st \in StoredAccountStates(wk[w].arg)} :
          wk' = [wk EXCEPT ![w] =
                    IF r.tag = "err" THEN Answered(@, r, 500, <<>>)
                    ELSE Answered(@, r, 200, AccountStateResponse(r.val, wk[w].arg))]
    /\ UNCHANGED othersOfWorkers

(***************************************************************************)
(* handle_get_tokens                                                       *)
(***************************************************************************)
\* Token ids run from 0 to this.
MaxToken == 1

Token(id) == [id |-> id]

\* The orders in which HashMap::values can yield a set of tokens.
RECURSIVE ValuesOrders(_)
ValuesOrders(ids) ==
    IF ids = {} THEN {<<>>}
    ELSE UNION {{<<Token(i)>> \o rest : rest \in ValuesOrders(ids \ {i})} : i \in ids}

\* vec_tokens.sort_by_key(|t| t.id): an insertion of each token in turn
RECURSIVE SortByKeyId(_)
SortByKeyId(v) ==
    IF v = <<>> THEN <<>>
    ELSE LET sorted == SortByKeyId(Tail(v))
             below == SelectSeq(sorted, LAMBDA t : t.id < Head(v).id)
             rest == SelectSeq(sorted, LAMBDA t : t.id >= Head(v).id)
         IN below \o <<Head(v)>> \o rest

HandleGetTokens(w) ==
    /\ Ready(w)
    /\ wk' = [wk EXCEPT ![w] = AccessStorage(Request("tokens", <<>>))]
    /\ UNCHANGED othersOfWorkers

TokensQuery(w) ==
    /\ Querying(w, "tokens")
    /\ \/ wk' = [wk EXCEPT ![w] = Answered(@, Err, 500, <<>>)]
       \/ \E ids \in SUBSET (0..MaxToken) : \E v \in ValuesOrders(ids) :
             wk' = [wk EXCEPT ![w] = Answered(@, Ok(ids), 200, SortByKeyId(v))]
    /\ UNCHANGED othersOfWorkers

(***************************************************************************)
(* handle_get_account_transactions_history                                 *)
(***************************************************************************)
\* A ceiling ten times too high.
MAX_LIMIT_TIMES_TEN == 10 * 100

MAX_LIMIT == 100

\* The limits a client asks for: i64 values at and around the ceiling.
HistoryLimits == {0 - 1, 0, MAX_LIMIT, MAX_LIMIT + 1}

\* get_account_transactions_history: an account with one transaction; a
\* negative limit is refused by the database.
AccountTransactionsHistory(address, offset, limit) ==
    IF limit < 0 THEN {Err}
    ELSE {Err, Ok(IF limit >= 1 /\ offset = 0 THEN <<"tx">> ELSE <<>>)}

HandleGetAccountTransactionsHistory(w) ==
    /\ Ready(w)
    /\ \E limit \in HistoryLimits :
          LET rec == Request("history", <<"address", 0, limit>>)
          IN wk' = [wk EXCEPT ![w] =
                       IF limit > MAX_LIMIT THEN Reject(rec, 400)
                       ELSE AccessStorage([rec EXCEPT !.arg = <<"address", 0, limit>>])]
    /\ UNCHANGED othersOfWorkers

AccountTransactionsHistoryQuery(w) ==
    /\ Querying(w, "history")
    /\ \E r \in AccountTransactionsHistory(wk[w].arg[1], wk[w].arg[2], wk[w].arg[3]) :
          wk' = [wk EXCEPT ![w] =
                    IF r.tag = "err" THEN Answered(@, r, 500, <<>>)
                    ELSE Answered(@, r, 200, r.val)]
    /\ UNCHANGED othersOfWorkers

(***************************************************************************)
(* handle_get_executed_transaction_by_hash                                 *)
(***************************************************************************)
RawHexQueries ==
    {<<>>, <<"0">>, Str0x \o <<"a", "b">>, Str0x \o <<"g", "1">>,
     <<"z", "z", "1", "2">>, Str0x \o <<"a">>, Str0x \o EAcute,
     EAcute, <<"a">> \o EAcute, <<"a">> \o EAcute \o <<"g">>}

\* tx_receipt: a failure, no receipt, or the receipt
TxReceipts(hash) == {Err, Ok(NoneOpt), Ok(Some(<<"receipt", hash>>))}

\* The raw-hex path of the handler: the length check, the slice from byte
\* 2 and hex::decode.
ParseRawHex(tx_hash_hex) ==
    IF StrLen(tx_hash_hex) < 2 THEN NoneOpt
    ELSE LET sl == SliceFrom(tx_hash_hex, 2)
         IN IF sl.panic THEN Panicked
            ELSE LET b == HexDecode(sl.str)
                 IN IF b.tag = "ok" THEN Some(b.val) ELSE NoneOpt

HandleGetExecutedTransactionByHash(w) ==
    /\ Ready(w)
    /\ \E q \in RawHexQueries :
          LET rec == Request("executed_tx", q)
              h == ParseRawHex(q)
          IN wk' = [wk EXCEPT ![w] =
                       IF h.tag = "panic" THEN [rec EXCEPT !.pc = "panicked"]
                       ELSE IF ~IsSome(h) THEN Reject(rec, 400)
                       ELSE AccessStorage([rec EXCEPT !.arg = h.val])]
    /\ UNCHANGED othersOfWorkers

\* if let Ok(tx) = ...tx_receipt(..) { Ok(json(tx)) } else { Ok(json(())) }
ExecutedTransactionQuery(w) ==
    /\ Querying(w, "executed_tx")
    /\ \E r \in TxReceipts(wk[w].arg) :
          wk' = [wk EXCEPT ![w] =
                    IF r.tag = "ok" THEN Answered(@, r, 200, r.val)
                    ELSE Answered(@, r, 200, "null")]
    /\ UNCHANGED othersOfWorkers

(***************************************************************************)
(* handle_get_tx_by_hash                                                   *)
(***************************************************************************)
HashQueries ==
    {StrSyncTx \o Rep("a", 2 * HASH_SIZE),
     Str0x \o Rep("a", 2 * HASH_SIZE - 2)}

\* get_tx_by_hash: a failure, no transaction, or the transaction
TxsByHash(hash) == {Err, Ok(NoneOpt), Ok(Some(<<"tx", hash>>))}

HandleGetTxByHash(w) ==
    /\ Ready(w)
    /\ \E q \in HashQueries :
          LET rec == Request("tx_by_hash", q)
              h == TryParseHash(q)
          IN wk' = [wk EXCEPT ![w] =
                       IF h.tag = "panic" THEN [rec EXCEPT !.pc = "panicked"]
                       ELSE IF ~IsSome(h) THEN Reject(rec, 400)
                       ELSE AccessStorage([rec EXCEPT !.arg = h.val])]
    /\ UNCHANGED othersOfWorkers

TxByHashQuery(w) ==
    /\ Querying(w, "tx_by_hash")
    /\ \E r \in TxsByHash(wk[w].arg) :
          wk' = [wk EXCEPT ![w] =
                    IF r.tag = "err" THEN Answered(@, r, 500, <<>>)
                    ELSE Answered(@, r, 200, r.val)]
    /\ UNCHANGED othersOfWorkers

(***************************************************************************)
(* The chain as the block and transaction queries see it: the blocks 1 to  *)
(* committed, each with TxPerBlock executed operations.                    *)
(***************************************************************************)
Min(a, b) == IF a < b THEN a ELSE b

Block(n) == [block_number |-> n]

\* load_block_range(max_block, limit): at most limit blocks, descending
\* from the highest stored block that is not above max_block
LoadBlockRange(d, max_block, limit) ==
    LET top == Min(max_block, d.committed)
        n == Min(limit, top)
    IN [i \in 1..n |-> Block(top - i + 1)]

\* get_block_executed_ops(block_id) / get_block_transactions(block_number)
BlockExecutedOps(d, block_id) ==
    IF block_id >= 1 /\ block_id <= d.committed
    THEN [i \in 1..TxPerBlock |-> [block |-> block_id, index |-> i - 1]]
    ELSE <<>>

\* find_block_by_height_or_hash(query), for a query that is a height
FindBlockByHeightOrHash(d, query) ==
    IF query >= 1 /\ query <= d.committed THEN Some(Block(query)) ELSE NoneOpt

\* The block numbers a client asks for: the stored ones and one above.
BlockIds == 0..(MaxBlock + 1)

(***************************************************************************)
(* handle_get_priority_op_receipt                                          *)
(***************************************************************************)
HandleGetPriorityOpReceipt(w) ==
    /\ Ready(w)
    /\ \E id \in {0, 1} :
          wk' = [wk EXCEPT ![w] =
                    AccessStorage([Request("priority_op", id) EXCEPT !.arg = id])]
    /\ UNCHANGED othersOfWorkers

PriorityOpReceiptQuery(w) ==
    /\ Querying(w, "priority_op")
    /\ \E r \in {Err, Ok(<<"priority_op_receipt", wk[w].arg>>)} :
          wk' = [wk EXCEPT ![w] =
                    IF r.tag = "err" THEN Answered(@, r, 500, <<>>)
                    ELSE Answered(@, r, 200, r.val)]
    /\ UNCHANGED othersOfWorkers

(***************************************************************************)
(* handle_get_transaction_by_id                                            *)
(***************************************************************************)
HandleGetTransactionById(w) ==
    /\ Ready(w)
    /\ \E block_id \in BlockIds, tx_id \in 0..TxPerBlock :
          wk' = [wk EXCEPT ![w] =
                    AccessStorage([Request("tx_by_id", <<block_id, tx_id>>) EXCEPT
                                      !.arg = block_id])]
    /\ UNCHANGED othersOfWorkers

\* executed_ops.get(tx_id as usize): Some inside the vector, None past it
TransactionByIdQuery(w) ==
    /\ Querying(w, "tx_by_id")
    /\ \E r \in QueryResults(BlockExecutedOps(db, wk[w].arg)) :
          LET tx_id == wk[w].req[2]
          IN wk' = [wk EXCEPT ![w] =
                       IF r.tag = "err" THEN Answered(@, r, 500, <<>>)
                       ELSE IF tx_id < Len(r.val) THEN Answered(@, r, 200, r.val[tx_id + 1])
                       ELSE Answered(@, r, 404, <<>>)]
    /\ UNCHANGED othersOfWorkers

(***************************************************************************)
(* handle_get_blocks                                                       *)
(***************************************************************************)
DEFAULT_MAX_BLOCK == 999999999

DEFAULT_BLOCKS_LIMIT == 20

BLOCKS_MAX_LIMIT == 100

\* HandleBlocksQuery: max_block and limit, each given or not
BlocksQueries ==
    [max_block : {NoneOpt} \cup {Some(b) : b \in BlockIds},
     limit : {NoneOpt, Some(0), Some(1), Some(BLOCKS_MAX_LIMIT), Some(BLOCKS_MAX_LIMIT + 1)}]

HandleGetBlocks(w) ==
    /\ Ready(w)
    /\ \E query \in BlocksQueries :
          LET rec == Request("blocks", query)
              max_block == IF IsSome(query.max_block) THEN query.max_block.val
                           ELSE DEFAULT_MAX_BLOCK
              limit == IF IsSome(query.limit) THEN query.limit.val
                       ELSE DEFAULT_BLOCKS_LIMIT
          IN wk' = [wk EXCEPT ![w] =
                       IF limit > BLOCKS_MAX_LIMIT THEN Reject(rec, 400)
                       ELSE AccessStorage([rec EXCEPT !.arg = <<max_block, limit>>])]
    /\ UNCHANGED othersOfWorkers

BlocksQuery(w) ==
    /\ Querying(w, "blocks")
    /\ \E r \in QueryResults(LoadBlockRange(db, wk[w].arg[1], wk[w].arg[2])) :
          wk' = [wk EXCEPT ![w] =
                    IF r.tag = "err" THEN Answered(@, r, 500, <<>>)
                    ELSE Answered(@, r, 200, r.val)]
    /\ UNCHANGED othersOfWorkers

(***************************************************************************)
(* handle_get_block_by_id                                                  *)
(***************************************************************************)
HandleGetBlockById(w) ==
    /\ Ready(w)
    /\ \E block_id \in BlockIds :
          wk' = [wk EXCEPT ![w] =
                    AccessStorage([Request("block_by_id", block_id) EXCEPT
                                      !.arg = <<block_id, 1>>])]
    /\ UNCHANGED othersOfWorkers

\* blocks.pop(): the last block of the vector, if any
BlockByIdQuery(w) ==
    /\ Querying(w, "block_by_id")
    /\ \E r \in QueryResults(LoadBlockRange(db, wk[w].arg[1], wk[w].arg[2])) :
          wk' = [wk EXCEPT ![w] =
                    IF r.tag = "err" THEN Answered(@, r, 500, <<>>)
                    ELSE IF Len(r.val) > 0 THEN Answered(@, r, 200, r.val[Len(r.val)])
                    ELSE Answered(@, r, 404, <<>>)]
    /\ UNCHANGED othersOfWorkers

(***************************************************************************)
(* handle_get_block_transactions                                           *)
(***************************************************************************)
HandleGetBlockTransactions(w) ==
    /\ Ready(w)
    /\ \E block_number \in BlockIds :
          wk' = [wk EXCEPT ![w] =
                    AccessStorage([Request("block_txs", block_number) EXCEPT
                                      !.arg = block_number])]
    /\ UNCHANGED othersOfWorkers

BlockTransactionsQuery(w) ==
    /\ Querying(w, "block_txs")
    /\ \E r \in QueryResults(BlockExecutedOps(db, wk[w].arg)) :
          wk' = [wk EXCEPT ![w] =
                    IF r.tag = "err" THEN Answered(@, r, 500, <<>>)
                    ELSE Answered(@, r, 200, r.val)]
    /\ UNCHANGED othersOfWorkers

(***************************************************************************)
(* handle_block_explorer_search                                            *)
(***************************************************************************)
HandleBlockExplorerSearch(w) ==
    /\ Ready(w)
    /\ \E query \in BlockIds :
          wk' = [wk EXCEPT ![w] =
                    AccessStorage([Request("search", query) EXCEPT !.arg = query])]
    /\ UNCHANGED othersOfWorkers

\* find_block_by_height_or_hash returns an Option: Some is 200, None 404
BlockExplorerSearchQuery(w) ==
    /\ Querying(w, "search")
    /\ LET result == FindBlockByHeightOrHash(db, wk[w].arg)
       IN wk' = [wk EXCEPT ![w] =
                    IF IsSome(result) THEN Answered(@, Ok(result), 200, result.val)
                    ELSE Answered(@, Ok(result), 404, <<>>)]
    /\ UNCHANGED othersOfWorkers

(***************************************************************************)
(* The updater thread (spawn_network_status_updater).                      *)
(***************************************************************************)
NoResults == [lv |-> NotRead, lc |-> NotRead, tt |-> NotRead, op |-> NotRead]

\* The thread before its first tick.  Besides the locals of the loop body,
\* res keeps the results of the cycle's queries, npub counts the stores of
\* the cycle, and live tells that some cycle has stored since the start.
UpdaterInit ==
    [pc |-> "tick", conn |-> FALSE, mode |-> "none",
     last_verified |-> 0, status |-> DefaultNetworkStatus,
     res |-> NoResults, op_arg |-> 0, true_lv |-> 0, cf_op |-> NotRead,
     npub |-> 0, live |-> FALSE]

\* A loop that a supervisor starts again after the thread died.
UpdaterTickOrRestart ==
    /\ upd.pc \in {"tick", "dead"}
    /\ upd' = [UpdaterInit EXCEPT !.pc = "acquire", !.live = upd.live]
    /\ UNCHANGED <<db, extConns, network_status, wlock, panic_notify, wk, parse>>

\* timer.tick().await: the next iteration of the loop starts.
UpdaterTick ==
    /\ upd.pc = "tick"
    /\ upd' = [UpdaterInit EXCEPT !.pc = "acquire", !.live = upd.live]
    /\ UNCHANGED <<db, extConns, network_status, wlock, panic_notify, wk, parse>>

\* An updater that takes the write lock together with its connection, at
\* the start of the cycle.
UpdaterAcquireLocking ==
    /\ upd.pc = "acquire"
    /\ FreeConns > 0
    /\ ~wlock /\ \A w \in Workers : wk[w].pc # "locked"
    /\ wlock' = TRUE
    /\ upd' = [upd EXCEPT !.pc = "read_lv", !.conn = TRUE, !.mode = "blocking"]
    /\ UNCHANGED <<db, extConns, network_status, panic_notify, wk, parse>>

\* connection_pool.access_storage(): the blocking mode; a connection is free.
UpdaterAcquire ==
    /\ upd.pc = "acquire"
    /\ FreeConns > 0
    /\ upd' = [upd EXCEPT !.pc = "read_lv", !.conn = TRUE, !.mode = "blocking"]
    /\ UNCHANGED <<db, extConns, network_status, wlock, panic_notify, wk, parse>>

\* connection_pool.access_storage() gives up waiting and returns Err;
\* .expect("db failed") panics, the thread dies and the sentinel notifies.
UpdaterAcquireFails ==
    /\ upd.pc = "acquire"
    /\ FreeConns = 0
    /\ upd' = [upd EXCEPT !.pc = "dead", !.mode = "blocking"]
    /\ panic_notify' = TRUE
    /\ UNCHANGED <<db, extConns, network_status, wlock, wk, parse>>

\* let last_verified = ...get_last_verified_block().unwrap_or(0)
UpdaterReadLastVerified ==
    /\ upd.pc = "read_lv"
    /\ \E r \in QueryResults(GetLastVerifiedBlock(db)) :
          upd' = [upd EXCEPT !.pc = "read_lc",
                             !.res.lv = r,
                             !.true_lv = GetLastVerifiedBlock(db),
                             !.last_verified = UnwrapOr(r, 0)]
    /\ UNCHANGED <<db, extConns, network_status, wlock, panic_notify, wk, parse>>

\* next_block_at_max: None, last_committed: ...get_last_committed_block().unwrap_or(0)
UpdaterReadLastCommitted ==
    /\ upd.pc = "read_lc"
    /\ \E r \in QueryResults(GetLastCommittedBlock(db)) :
          upd' = [upd EXCEPT !.pc = "read_tt",
                             !.res.lc = r,
                             !.status.next_block_at_max = None,
                             !.status.last_committed = UnwrapOr(r, 0)]
    /\ UNCHANGED <<db, extConns, network_status, wlock, panic_notify, wk, parse>>

\* last_verified, total_transactions: ...count_total_transactions().unwrap_or(0)
UpdaterReadTotalTransactions ==
    /\ upd.pc = "read_tt"
    /\ \E r \in QueryResults(CountTotalTransactions(db)) :
          upd' = [upd EXCEPT !.pc = "read_op",
                             !.res.tt = r,
                             !.status.last_verified = upd.last_verified,
                             !.status.total_transactions = UnwrapOr(r, 0)]
    /\ UNCHANGED <<db, extConns, network_status, wlock, panic_notify, wk, parse>>

\* The query asked about the last_verified of the published snapshot.
OutstandingProofsArgCached == network_status.last_verified

\* The block number handed to count_outstanding_proofs.
OutstandingProofsArg == upd.last_verified

\* outstanding_txs: ...count_outstanding_proofs(last_verified).unwrap_or(0)
\* cf_op keeps what the same query answers for the block that the
\* last-verified query of this cycle was asked about.
UpdaterReadOutstandingProofs ==
    /\ upd.pc = "read_op"
    /\ \E ok \in BOOLEAN :
          LET r == IF ok THEN Ok(CountOutstandingProofs(db, OutstandingProofsArg)) ELSE Err
              cf == IF ok THEN Ok(CountOutstandingProofs(db, upd.true_lv)) ELSE Err
          IN upd' = [upd EXCEPT !.pc = "lock",
                                !.res.op = r,
                                !.op_arg = OutstandingProofsArg,
                                !.cf_op = cf,
                                !.status.outstanding_txs = UnwrapOr(r, 0)]
    /\ UNCHANGED <<db, extConns, network_status, wlock, panic_notify, wk, parse>>

\* A write() that does not wait for the readers to leave.
CanWriteLockDespiteReaders == ~wlock

\* RwLock::write(): granted when nobody holds the lock, reader or writer.
CanWriteLock == ~wlock /\ \A w \in Workers : wk[w].pc # "locked"

\* state.network_status.0.as_ref().write().unwrap()
UpdaterWriteLock ==
    /\ upd.pc = "lock"
    /\ CanWriteLock
    /\ wlock' = TRUE
    /\ upd' = [upd EXCEPT !.pc = "store"]
    /\ UNCHANGED <<db, extConns, network_status, panic_notify, wk, parse>>

\* *guard = status; the guard is dropped at the end of the statement, and
\* `storage` at the end of the loop body.
UpdaterStore ==
    /\ upd.pc = "store"
    /\ network_status' = upd.status
    /\ wlock' = FALSE
    /\ upd' = [upd EXCEPT !.pc = "tick", !.conn = FALSE, !.npub = @ + 1, !.live = TRUE]
    /\ wk' = [w \in Workers |->
                IF wk[w].pc = "locked"
                THEN [wk[w] EXCEPT !.seen = @ \cup {upd.status}]
                ELSE IF wk[w].pc = "done" /\ wk[w].kind = "status"
                THEN [wk[w] EXCEPT !.stale = TRUE]
                ELSE wk[w]]
    /\ UNCHANGED <<db, extConns, panic_notify, parse>>

(***************************************************************************)
(* The updater with the chain and the pool's other users.                  *)
(***************************************************************************)
Init ==
    /\ db = [committed |-> 0, verified |-> 0]
    /\ extConns = 0
    /\ network_status = DefaultNetworkStatus
    /\ wlock = FALSE
    /\ upd = UpdaterInit
    /\ panic_notify = FALSE
    /\ wk = [w \in 1..NumWorkers |-> IdleWorker]
    /\ parse = NoParse

Next ==
    \/ CommitBlock
    \/ VerifyBlock
    \/ ExtAcquire
    \/ ExtRelease
    \/ UpdaterTick
    \/ UpdaterAcquire
    \/ UpdaterAcquireFails
    \/ UpdaterReadLastVerified
    \/ UpdaterReadLastCommitted
    \/ UpdaterReadTotalTransactions
    \/ UpdaterReadOutstandingProofs
    \/ UpdaterWriteLock
    \/ UpdaterStore

Spec == Init /\ [][Next]_vars

(***************************************************************************)
(* The updater with the handlers that read the snapshot, over a chain that *)
(* has committed MaxBlock blocks and verified none.  The pool has no other *)
(* user here, so the updater gets its connection in every cycle; what the  *)
(* pool's other users do to it is in SpecPool.                             *)
(***************************************************************************)
InitReaders ==
    /\ db = [committed |-> MaxBlock, verified |-> 0]
    /\ extConns = 0
    /\ network_status = DefaultNetworkStatus
    /\ wlock = FALSE
    /\ upd = UpdaterInit
    /\ panic_notify = FALSE
    /\ wk = [w \in 1..NumWorkers |-> IdleWorker]
    /\ parse = NoParse

NextReaders ==
    \/ UpdaterTick
    \/ UpdaterAcquire
    \/ UpdaterReadLastVerified
    \/ UpdaterReadLastCommitted
    \/ UpdaterReadTotalTransactions
    \/ UpdaterReadOutstandingProofs
    \/ UpdaterWriteLock
    \/ UpdaterStore
    \/ \E w \in Workers : StatusReadLock(w)
    \/ \E w \in Workers : StatusCloneField(w)
    \/ \E w \in Workers : StatusRespond(w)
    \/ \E w \in Workers : WorkerNextRequest(w)

SpecReaders == InitReaders /\ [][NextReaders]_vars

(***************************************************************************)
(* The request handlers with the chain and the pool's other users.  One    *)
(* worker is followed through its requests; the requests served by the     *)
(* other workers meet it only in the pool, where the connections they hold *)
(* are among those of ExtAcquire and ExtRelease.                           *)
(***************************************************************************)
InitGateway ==
    /\ db = [committed |-> 0, verified |-> 0]
    /\ extConns = 0
    /\ network_status = DefaultNetworkStatus
    /\ wlock = FALSE
    /\ upd = UpdaterInit
    /\ panic_notify = FALSE
    /\ wk = [w \in {1} |-> IdleWorker]
    /\ parse = NoParse

NextGateway ==
    \/ CommitBlock
    \/ VerifyBlock
    \/ ExtAcquire
    \/ ExtRelease
    \/ \E w \in Workers : HandleGetTestnetConfig(w)
    \/ \E w \in Workers : StatusReadLock(w)
    \/ \E w \in Workers : StatusCloneField(w)
    \/ \E w \in Workers : StatusRespond(w)
    \/ \E w \in Workers : HandleGetAccountState(w)
    \/ \E w \in Workers : AccountStateQuery(w)
    \/ \E w \in Workers : HandleGetTokens(w)
    \/ \E w \in Workers : TokensQuery(w)
    \/ \E w \in Workers : HandleGetAccountTransactionsHistory(w)
    \/ \E w \in Workers : AccountTransactionsHistoryQuery(w)
    \/ \E w \in Workers : HandleGetExecutedTransactionByHash(w)
    \/ \E w \in Workers : ExecutedTransactionQuery(w)
    \/ \E w \in Workers : HandleGetTxByHash(w)
    \/ \E w \in Workers : TxByHashQuery(w)
    \/ \E w \in Workers : HandleGetPriorityOpReceipt(w)
    \/ \E w \in Workers : PriorityOpReceiptQuery(w)
    \/ \E w \in Workers : HandleGetTransactionById(w)
    \/ \E w \in Workers : TransactionByIdQuery(w)
    \/ \E w \in Workers : HandleGetBlocks(w)
    \/ \E w \in Workers : BlocksQuery(w)
    \/ \E w \in Workers : HandleGetBlockById(w)
    \/ \E w \in Workers : BlockByIdQuery(w)
    \/ \E w \in Workers : HandleGetBlockTransactions(w)
    \/ \E w \in Workers : BlockTransactionsQuery(w)
    \/ \E w \in Workers : HandleBlockExplorerSearch(w)
    \/ \E w \in Workers : BlockExplorerSearchQuery(w)
    \/ \E w \in Workers : WorkerNextRequest(w)

SpecGateway == InitGateway /\ [][NextGateway]_vars

(***************************************************************************)
(* The updater and the request handlers on the one pool, over a chain that *)
(* has committed MaxBlock blocks and verified none.                        *)
(***************************************************************************)
InitPool ==
    /\ db = [committed |-> MaxBlock, verified |-> 0]
    /\ extConns = 0
    /\ network_status = DefaultNetworkStatus
    /\ wlock = FALSE
    /\ upd = UpdaterInit
    /\ panic_notify = FALSE
    /\ wk = [w \in {1} |-> IdleWorker]
    /\ parse = NoParse

NextPool ==
    \/ ExtAcquire
    \/ ExtRelease
    \/ UpdaterTick
    \/ UpdaterAcquire
    \/ UpdaterAcquireFails
    \/ UpdaterReadLastVerified
    \/ UpdaterReadLastCommitted
    \/ UpdaterReadTotalTransactions
    \/ UpdaterReadOutstandingProofs
    \/ UpdaterWriteLock
    \/ UpdaterStore
    \/ \E w \in Workers : HandleGetTestnetConfig(w)
    \/ \E w \in Workers : StatusReadLock(w)
    \/ \E w \in Workers : StatusCloneField(w)
    \/ \E w \in Workers : StatusRespond(w)
    \/ \E w \in Workers : HandleGetAccountState(w)
    \/ \E w \in Workers : AccountStateQuery(w)
    \/ \E w \in Workers : HandleGetTokens(w)
    \/ \E w \in Workers : TokensQuery(w)
    \/ \E w \in Workers : HandleGetAccountTransactionsHistory(w)
    \/ \E w \in Workers : AccountTransactionsHistoryQuery(w)
    \/ \E w \in Workers : HandleGetExecutedTransactionByHash(w)
    \/ \E w \in Workers : ExecutedTransactionQuery(w)
    \/ \E w \in Workers : HandleGetTxByHash(w)
    \/ \E w \in Workers : TxByHashQuery(w)
    \/ \E w \in Workers : HandleGetPriorityOpReceipt(w)
    \/ \E w \in Workers : PriorityOpReceiptQuery(w)
    \/ \E w \in Workers : HandleGetTransactionById(w)
    \/ \E w \in Workers : TransactionByIdQuery(w)
    \/ \E w \in Workers : HandleGetBlocks(w)
    \/ \E w \in Workers : BlocksQuery(w)
    \/ \E w \in Workers : HandleGetBlockById(w)
    \/ \E w \in Workers : BlockByIdQuery(w)
    \/ \E w \in Workers : HandleGetBlockTransactions(w)
    \/ \E w \in Workers : BlockTransactionsQuery(w)
    \/ \E w \in Workers : HandleBlockExplorerSearch(w)
    \/ \E w \in Workers : BlockExplorerSearchQuery(w)
    \/ \E w \in Workers : WorkerNextRequest(w)

SpecPool == InitPool /\ [][NextPool]_vars

\* The same with the threads scheduled: the updater's assignment under the
\* write lock and the steps of a read under the read lock are not left
\* pending for ever.  Ticks, requests, connections and the write lock
\* itself, which waits for the readers, come as they may.
SpecPoolFair ==
    /\ SpecPool
    /\ WF_vars(UpdaterStore)
    /\ \A w \in {1} : WF_vars(StatusCloneField(w)) /\ WF_vars(StatusRespond(w))

(***************************************************************************)
(* Properties of the network-status cache.                                 *)
(***************************************************************************)
\* A refresh cycle has just published and the next tick has not come.
CyclePublished == upd.pc = "tick" /\ upd.npub > 0

\* C1: every value SharedNetworkStatus::read returns is one whole value that
\* the snapshot held during the call (the default or one the updater
\* stored), never a mix of the fields of two of them.
C1_ReadReturnsWholeSnapshot ==
    \A w \in Workers :
        (wk[w].pc = "done" /\ wk[w].kind = "status") => wk[w].body \in wk[w].seen

\* C1 witness: a read returned a snapshot the updater published, and the
\* updater has replaced it since.
C1_Witness ==
    \E w \in Workers :
        /\ wk[w].pc = "done" /\ wk[w].kind = "status"
        /\ wk[w].body # DefaultNetworkStatus
        /\ wk[w].body # network_status

\* C2: the updater never terminates because of a storage failure, the
\* failure to get a connection at the start of a cycle included.
C2_UpdaterNeverTerminates == upd.pc # "dead"

\* C3: a cycle that got its connection publishes exactly one snapshot, in
\* which a field is 0 when its read failed and the value read otherwise.
C3_FailedReadsDefaultToZero ==
    /\ upd.pc \in {"read_lv", "read_lc", "read_tt", "read_op", "lock", "store"}
          => upd.npub = 0
    /\ CyclePublished =>
          /\ upd.npub = 1
          /\ \A f \in {"lv", "lc", "tt", "op"} : upd.res[f].tag \in {"ok", "err"}
          /\ network_status.next_block_at_max = None
          /\ network_status.last_verified =
                (IF upd.res.lv.tag = "err" THEN 0 ELSE upd.res.lv.val)
          /\ network_status.last_committed =
                (IF upd.res.lc.tag = "err" THEN 0 ELSE upd.res.lc.val)
          /\ network_status.total_transactions =
                (IF upd.res.tt.tag = "err" THEN 0 ELSE upd.res.tt.val)
          /\ network_status.outstanding_txs =
                (IF upd.res.op.tag = "err" THEN 0 ELSE upd.res.op.val)

\* C3 witness: a published cycle in which two reads failed and two
\* succeeded with values other than 0.
C3_Witness ==
    /\ CyclePublished
    /\ upd.res.lv.tag = "err" /\ upd.res.tt.tag = "err"
    /\ upd.res.lc.tag = "ok" /\ upd.res.lc.val > 0
    /\ upd.res.op.tag = "ok" /\ upd.res.op.val > 0

\* Only the last-verified read of the published cycle failed.
OnlyLastVerifiedFailed ==
    /\ CyclePublished
    /\ upd.res.lv.tag = "err"
    /\ upd.res.lc.tag = "ok" /\ upd.res.tt.tag = "ok" /\ upd.res.op.tag = "ok"

\* C4 as claimed: when only the last-verified read fails, last_verified is
\* 0 and every other field is what it would have been had that read
\* succeeded; the task lives.
C4_OtherFieldsUnaffected ==
    OnlyLastVerifiedFailed =>
        /\ network_status.last_verified = 0
        /\ network_status.last_committed = upd.res.lc.val
        /\ network_status.total_transactions = upd.res.tt.val
        /\ network_status.outstanding_txs = upd.cf_op.val
        /\ upd.pc # "dead"

\* C4 as amended: when only the last-verified read fails, last_verified is
\* 0, last_committed and total_transactions are the values read, and
\* outstanding_txs is the count queried for block 0, the defaulted
\* last_verified; it is the count of the real last verified block when
\* that block is 0.  The task lives.
C4_OutstandingCountedFromZero ==
    OnlyLastVerifiedFailed =>
        /\ network_status.last_verified = 0
        /\ network_status.last_committed = upd.res.lc.val
        /\ network_status.total_transactions = upd.res.tt.val
        /\ upd.op_arg = 0
        /\ network_status.outstanding_txs = upd.res.op.val
        /\ upd.true_lv = 0 => network_status.outstanding_txs = upd.cf_op.val
        /\ upd.pc # "dead"

\* C4 witness: only the last-verified read failed, and the published
\* outstanding_txs is not the count of the real last verified block.
C4_Witness ==
    /\ OnlyLastVerifiedFailed
    /\ network_status.outstanding_txs # upd.cf_op.val

(***************************************************************************)
(* try_parse_address and try_parse_hash on their own, over queries built   *)
(* from up to two prefixes and a body of about the right length.           *)
(***************************************************************************)
\* How far the bodies' lengths stray from the length that parses.
Slack == 2

PrefixChoices == {<<>>, Str0x, StrSyncBl, StrSyncTx, <<"0", "X">>}

BodyLengths ==
    {2 * ADDRESS_SIZE + d : d \in (0 - Slack)..Slack} \cup
    {2 * HASH_SIZE + d : d \in (0 - Slack)..Slack}

\* Runs of a hex digit, the same with one byte that is no hex digit, and
\* the same ending in a two-byte character.
ParseBodies ==
    UNION {{Rep("1", n), Rep("a", n), Rep("F", n),
            [Rep("b", n) EXCEPT ![n] = "g"],
            Rep("c", n - 2) \o EAcute} : n \in BodyLengths}

ParseQueries == {p1 \o p2 \o b : p1 \in PrefixChoices, p2 \in PrefixChoices, b \in ParseBodies}

ParseAddress ==
    /\ parse.pc = "idle"
    /\ \E q \in ParseQueries :
          parse' = [pc |-> "done", fn |-> "address", query |-> q,
                    result |-> TryParseAddress(q)]
    /\ UNCHANGED <<db, extConns, network_status, wlock, upd, panic_notify, wk>>

ParseHash ==
    /\ parse.pc = "idle"
    /\ \E q \in ParseQueries :
          parse' = [pc |-> "done", fn |-> "hash", query |-> q,
                    result |-> TryParseHash(q)]
    /\ UNCHANGED <<db, extConns, network_status, wlock, upd, panic_notify, wk>>

\* The caller takes the result.
ParseReturn ==
    /\ parse.pc = "done"
    /\ parse' = NoParse
    /\ UNCHANGED <<db, extConns, network_status, wlock, upd, panic_notify, wk>>

NextParse ==
    \/ ParseAddress
    \/ ParseHash
    \/ ParseReturn

SpecParse == Init /\ [][NextParse]_vars

(***************************************************************************)
(* Properties of the parsing.                                              *)
(***************************************************************************)
HexChars ==
    {"0", "1", "2", "3", "4", "5", "6", "7", "8", "9",
     "a", "b", "c", "d", "e", "f", "A", "B", "C", "D", "E", "F"}

RecognizedPrefixes == {Str0x, StrSyncBl, StrSyncTx}

\* q less at most one recognized prefix is n hex characters.
HexAfterOnePrefix(q, n) ==
    \E p \in RecognizedPrefixes \cup {<<>>} :
        /\ StartsWith(q, p)
        /\ Len(q) - Len(p) = n
        /\ \A i \in (Len(p) + 1)..Len(q) : q[i] \in HexChars

\* C10: try_parse_address succeeds exactly on the queries that are, less at
\* most one recognized prefix, 40 hex characters, and try_parse_hash
\* exactly on those that are 64; the value is the bytes, 20 or 32 of them;
\* a query that keeps a prefix after the one strip fails.
C10_ParseIffHexOfExactLength ==
    parse.pc = "done" =>
        LET n == IF parse.fn = "address" THEN ADDRESS_SIZE ELSE HASH_SIZE
        IN /\ parse.result.tag \in {"some", "none"}
           /\ IsSome(parse.result) <=> HexAfterOnePrefix(parse.query, 2 * n)
           /\ IsSome(parse.result) => Len(parse.result.val) = n
           /\ (\E p1 \in RecognizedPrefixes, p2 \in RecognizedPrefixes :
                   StartsWith(parse.query, p1 \o p2)) => ~IsSome(parse.result)

\* C10 witness: an unprefixed query of 40 hex characters parsed as an
\* address.
C10_Witness ==
    /\ parse.pc = "done" /\ parse.fn = "address"
    /\ IsSome(parse.result)
    /\ \A p \in RecognizedPrefixes : ~StartsWith(parse.query, p)

(***************************************************************************)
(* Properties of the handlers.                                             *)
(***************************************************************************)
\* The worker has returned from its handler.
Done(w) == wk[w].pc = "done"

\* The handler neither asked for a connection nor queried the storage.
NoStorage(w) == wk[w].mode = "none" /\ ~wk[w].conn /\ wk[w].queries = 0

\* C5: a handler whose storage query failed answers 500, never 200; a
\* handler that reached storage answers 200, 404, 408 or 500.
C5_StorageFailureIs500 ==
    \A w \in Workers :
        Done(w) =>
            /\ wk[w].sres.tag = "err" => wk[w].status = 500
            /\ wk[w].mode # "none" => wk[w].status \in {200, 404, 408, 500}

\* C6: the history and the block-range handler answer 400 to a limit above
\* 100 without asking for a connection or querying; the limit they hand
\* to storage is the one asked for and at most 100, and 20 for a
\* block-range request without a limit.
C6_LimitCeilingBeforeStorage ==
    \A w \in Workers :
        /\ wk[w].kind = "history" =>
              /\ wk[w].req[3] > 100 => Done(w) /\ wk[w].status = 400 /\ NoStorage(w)
              /\ (wk[w].conn \/ wk[w].queries > 0) =>
                    wk[w].arg[3] = wk[w].req[3] /\ wk[w].arg[3] <= 100
        /\ wk[w].kind = "blocks" =>
              /\ (IsSome(wk[w].req.limit) /\ wk[w].req.limit.val > 100) =>
                    Done(w) /\ wk[w].status = 400 /\ NoStorage(w)
              /\ (wk[w].conn \/ wk[w].queries > 0) =>
                    /\ wk[w].arg[2] <= 100
                    /\ IsSome(wk[w].req.limit) => wk[w].arg[2] = wk[w].req.limit.val
                    /\ ~IsSome(wk[w].req.limit) => wk[w].arg[2] = 20

\* C6 witness: a history request with limit 101 was answered 400 while a
\* connection was free.
C6_Witness ==
    \E w \in Workers :
        /\ Done(w) /\ wk[w].kind = "history"
        /\ wk[w].req[3] = 101 /\ wk[w].status = 400
        /\ FreeConns > 0

\* The positions of s where a character starts.
CharStarts(s) == {i \in 1..Len(s) : s[i] \notin ContinuationBytes}

\* s is even-length hex from position i on.
HexFrom(s, i) ==
    /\ (Len(s) - i + 1) % 2 = 0
    /\ \A j \in i..Len(s) : s[j] \in HexChars

\* A raw-hex identifier is well formed when, less its first two characters
\* or less its first two bytes, it is even-length hex.
RawHexWellFormed(q) ==
    \/ Len(q) >= 2 /\ HexFrom(q, 3)
    \/ /\ Cardinality(CharStarts(q)) >= 2
       /\ \E i \in 3..(Len(q) + 1) :
             /\ Cardinality({j \in CharStarts(q) : j < i}) = 2
             /\ i \in CharStarts(q) \cup {Len(q) + 1}
             /\ HexFrom(q, i)

\* The request's identifier is invalid.
InvalidIdentifier(w) ==
    \/ wk[w].kind = "account_state" /\ ~HexAfterOnePrefix(wk[w].req, 40)
    \/ wk[w].kind = "tx_by_hash" /\ ~HexAfterOnePrefix(wk[w].req, 64)
    \/ wk[w].kind = "executed_tx" /\ ~RawHexWellFormed(wk[w].req)

\* C7: a request for an account, a transaction or an executed transaction
\* whose identifier is invalid is answered 400, and no connection is asked
\* for and no query issued for it, whatever the state of the pool.
C7_InvalidIdentifierIs400 ==
    \A w \in Workers :
        InvalidIdentifier(w) => Done(w) /\ wk[w].status = 400 /\ NoStorage(w)

\* The handlers that go to storage.
StorageKinds ==
    {"account_state", "tokens", "history", "executed_tx", "tx_by_hash", "priority_op",
     "tx_by_id", "blocks", "block_by_id", "block_txs", "search"}

\* C8: a handler only ever takes its connection in the fragile mode and
\* never waits for one; when it gets none it answers 408 without a query;
\* the blocking mode is the updater's alone.
C8_HandlersFailFast ==
    /\ \A w \in Workers :
          /\ wk[w].mode \in {"none", "fragile"}
          /\ wk[w].pc # "waiting"
          /\ (wk[w].conn \/ wk[w].queries > 0) => wk[w].mode = "fragile"
          /\ (Done(w) /\ wk[w].kind \in StorageKinds /\ wk[w].status \in {200, 404, 500}) =>
                wk[w].mode = "fragile" /\ wk[w].queries = 1
          /\ (Done(w) /\ wk[w].mode = "fragile" /\ wk[w].queries = 0) =>
                wk[w].status = 408 /\ ~wk[w].conn
          /\ wk[w].status = 408 => wk[w].mode = "fragile" /\ wk[w].queries = 0
    /\ upd.mode \in {"none", "blocking"}
    /\ upd.conn => upd.mode = "blocking"

\* C8 witness: a handler was answered 408 while the updater held the
\* connection it had taken in the blocking mode.
C8_Witness ==
    \E w \in Workers :
        /\ Done(w) /\ wk[w].status = 408 /\ wk[w].kind \in StorageKinds
        /\ upd.conn /\ upd.mode = "blocking"

\* C9: the raw-hex parsing of the executed-transaction handler never
\* crashes the handler, and an input shorter than 2 is answered 400.
C9_RawHexParsingIsTotal ==
    \A w \in Workers :
        wk[w].kind = "executed_tx" =>
            /\ wk[w].pc # "panicked"
            /\ StrLen(wk[w].req) < 2 => Done(w) /\ wk[w].status = 400

\* The blocks storage holds: 1 to the last committed one.
BlockExists(d, n) == n >= 1 /\ n <= d.committed

\* C11: the block-by-id handler answers 200 only with the block whose
\* number is the requested one, and answers 404 when its query succeeded
\* and no block has the requested number.
C11_BlockByIdIsExact ==
    \A w \in Workers :
        (Done(w) /\ wk[w].kind = "block_by_id") =>
            /\ wk[w].status = 200 => wk[w].body = Block(wk[w].req)
            /\ (wk[w].sres.tag = "ok" /\ ~BlockExists(db, wk[w].req)) => wk[w].status = 404

\* C12: the account-state response has an id exactly when storage holds a
\* committed record of the account; without any record both fields are the
\* empty account with the queried address; a stored committed record is
\* answered as commited and a stored verified record as verified.
C12_AccountStateMirrorsStorage ==
    \A w \in Workers :
        (Done(w) /\ wk[w].kind = "account_state" /\ wk[w].status = 200) =>
            LET stored == wk[w].sres.val
                address == wk[w].arg
                res == wk[w].body
                empty == Account(address, 0)
            IN /\ IsSome(res.id) <=> IsSome(stored.committed)
               /\ IsSome(stored.committed) =>
                     res.id = Some(stored.committed.val[1]) /\ res.commited = stored.committed.val[2]
               /\ IsSome(stored.verified) => res.verified = stored.verified.val[2]
               /\ ~IsSome(stored.committed) => res.commited = empty
               /\ ~IsSome(stored.verified) => res.verified = empty
               /\ (~IsSome(stored.committed) /\ ~IsSome(stored.verified)) =>
                     res = [id |-> NoneOpt, commited |-> empty, verified |-> empty]

\* C12 witness: an account whose committed and verified records differ was
\* answered, the committed one as commited.
C12_Witness ==
    \E w \in Workers :
        /\ Done(w) /\ wk[w].kind = "account_state" /\ wk[w].status = 200
        /\ IsSome(wk[w].sres.val.committed) /\ IsSome(wk[w].sres.val.verified)
        /\ wk[w].sres.val.committed.val[2] # wk[w].sres.val.verified.val[2]
        /\ wk[w].body.commited = wk[w].sres.val.committed.val[2]

\* The reads that returned and were followed by no publish.
FreshReads == {w \in Workers : Done(w) /\ wk[w].kind = "status" /\ ~wk[w].stale}

\* C13: the snapshot is one and the same value from the first to the last
\* step of a read, the value the read returns; and the reads that no
\* publish followed all returned the snapshot as it still is, so any two of
\* them returned identical values, whatever the other workers are doing.
C13_ReadIsIdempotent ==
    /\ \A w \in Workers : wk[w].pc = "locked" => wk[w].seen = {network_status}
    /\ \A w \in Workers : (Done(w) /\ wk[w].kind = "status") => wk[w].seen = {wk[w].body}
    /\ \A w \in FreshReads : wk[w].body = network_status
    /\ \A w1, w2 \in FreshReads : wk[w1].body = wk[w2].body

\* C13 witness: two workers' reads returned with no publish after either,
\* and the value they returned is a published one.
C13_Witness ==
    /\ \E w1, w2 \in FreshReads : w1 # w2
    /\ network_status # DefaultNetworkStatus

\* C14: the snapshot takes a new value only in the updater's store, done
\* under the write lock with the value that cycle built; the write lock is
\* only ever the updater's, taken for that store; and a step of a request
\* handler leaves the snapshot and its write lock as they are.
C14_OnlyTheUpdaterWrites ==
    [][/\ network_status' # network_status =>
             /\ upd.pc = "store" /\ wlock
             /\ network_status' = upd.status
             /\ upd'.pc = "tick"
       /\ wlock' # wlock => upd'.pc # upd.pc
       /\ wlock' => upd'.pc = "store"
       /\ (upd' = upd /\ wk' # wk) => (network_status' = network_status /\ wlock' = wlock)
      ]_vars

\* C14 witness: the updater has published and a handler has read and
\* answered that snapshot.
C14_Witness ==
    /\ network_status # DefaultNetworkStatus
    /\ \E w \in Workers : Done(w) /\ wk[w].kind = "status" /\ wk[w].body = network_status

\* The snapshot of a cache nothing was published to: all counts zero and no
\* next-block estimate.
ZeroSnapshot ==
    [next_block_at_max |-> "None", last_committed |-> 0, last_verified |-> 0,
     total_transactions |-> 0, outstanding_txs |-> 0]

\* C15: as long as no refresh has published, the snapshot and every value
\* a read has returned are the zero snapshot; a cache becomes live exactly
\* by a completed refresh, every completed refresh leaves it live, and a
\* live cache stays live.
C15_UninitializedThenLive ==
    [][/\ ~upd.live => network_status = ZeroSnapshot
       /\ ~upd'.live =>
             /\ network_status' = ZeroSnapshot
             /\ \A w \in Workers :
                   (wk'[w].pc = "done" /\ wk'[w].kind = "status") => wk'[w].body = ZeroSnapshot
       /\ upd.live => upd'.live
       /\ (upd.pc = "store" /\ upd'.pc = "tick") => upd'.live
       /\ (~upd.live /\ upd'.live) => (upd.pc = "store" /\ network_status' = upd.status)
      ]_vars

\* C15 witness: a read returned the zero snapshot before the first publish,
\* and the cache, live since, is about to be refreshed again.
C15_Witness ==
    /\ upd.live /\ upd.pc = "store"
    /\ \E w \in Workers :
          /\ Done(w) /\ wk[w].kind = "status" /\ wk[w].stale
          /\ wk[w].body = ZeroSnapshot /\ network_status # ZeroSnapshot

\* The handlers that answer from the memory of the process.
CacheKinds == {"status", "testnet_config"}

\* C16: a status or testnet-config handler never asks for a connection,
\* never holds one and never issues a query, and the answer it gives is
\* 200: the testnet-config handler with the contract address, the status
\* handler with the snapshot, which is still the current one when nothing
\* was published since.
C16_CacheHandlersNeverTouchStorage ==
    \A w \in Workers :
        wk[w].kind \in CacheKinds =>
            /\ ~wk[w].conn /\ wk[w].queries = 0 /\ wk[w].mode = "none"
            /\ wk[w].pc \in {"locked", "done"}
            /\ Done(w) => wk[w].status = 200
            /\ (Done(w) /\ wk[w].kind = "status" /\ ~wk[w].stale) => wk[w].body = network_status
            /\ (Done(w) /\ wk[w].kind = "testnet_config") => wk[w].body = "contract_address"

\* C16 witness: the status handler answered 200 with the default snapshot
\* while every connection of the pool was taken and the updater, which
\* never published, was dead for want of one.
C16_Witness ==
    \E w \in Workers :
        /\ Done(w) /\ wk[w].kind = "status" /\ wk[w].status = 200
        /\ FreeConns = 0 /\ ~upd.live /\ upd.pc = "dead"
        /\ wk[w].body = ZeroSnapshot

\* The queries of the cycle that have returned so far, in the order of
\* the cycle.
QueriesDone ==
    <<upd.res.lv.tag # "none", upd.res.lc.tag # "none",
      upd.res.tt.tag # "none", upd.res.op.tag # "none">>

\* C17: the updater holds its connection from the acquisition to the
\* store; the four queries return in the order last verified, last
\* committed, total transactions, outstanding proofs; nothing is published
\* before they all have, and once only; the outstanding-proof query is
\* given the last_verified read in this cycle, 0 when that read failed, and
\* that value is the published last_verified.
C17_CycleOrder ==
    /\ upd.pc \in {"tick", "acquire", "dead"} => ~upd.conn
    /\ upd.pc \in {"read_lv", "read_lc", "read_tt", "read_op", "lock", "store"} =>
          upd.conn /\ upd.npub = 0
    /\ upd.pc = "acquire" => QueriesDone = <<FALSE, FALSE, FALSE, FALSE>>
    /\ upd.pc = "read_lv" => QueriesDone = <<FALSE, FALSE, FALSE, FALSE>>
    /\ upd.pc = "read_lc" => QueriesDone = <<TRUE, FALSE, FALSE, FALSE>>
    /\ upd.pc = "read_tt" => QueriesDone = <<TRUE, TRUE, FALSE, FALSE>>
    /\ upd.pc = "read_op" => QueriesDone = <<TRUE, TRUE, TRUE, FALSE>>
    /\ upd.pc \in {"lock", "store"} => QueriesDone = <<TRUE, TRUE, TRUE, TRUE>>
    /\ upd.npub <= 1
    /\ upd.npub = 1 =>
          /\ upd.pc = "tick" /\ QueriesDone = <<TRUE, TRUE, TRUE, TRUE>>
          /\ upd.op_arg = (IF upd.res.lv.tag = "ok" THEN upd.res.lv.val ELSE 0)
          /\ network_status.last_verified = upd.op_arg
    /\ QueriesDone[1] =>
          upd.last_verified = (IF upd.res.lv.tag = "ok" THEN upd.res.lv.val ELSE 0)

\* C17 witness: a cycle published after its last-verified read returned a
\* block other than 0, and the outstanding-proof query was asked about it.
C17_Witness ==
    /\ CyclePublished
    /\ upd.res.lv.tag = "ok" /\ upd.res.lv.val > 0
    /\ upd.op_arg = upd.res.lv.val
    /\ network_status.last_verified = upd.res.lv.val

\* The updater is waiting for its tick or its connection, or is at one of
\* its storage reads, or is dead.
UpdaterAwayFromStore ==
    upd.pc \in {"tick", "acquire", "read_lv", "read_lc", "read_tt", "read_op", "lock", "dead"}

\* C18: the write lock is held only at the store, after the four queries
\* of the cycle have returned, never while the updater waits for a tick or
\* a connection or is at a storage read; a held write lock is released, and
\* a read that has its read lock returns.
C18_LockOnlyForTheStore ==
    /\ [](wlock => (upd.pc = "store" /\ QueriesDone = <<TRUE, TRUE, TRUE, TRUE>>))
    /\ [](UpdaterAwayFromStore => ~wlock)
    /\ (wlock ~> ~wlock)
    /\ \A w \in {1} : (wk[w].pc = "locked") ~> (wk[w].pc = "done" /\ wk[w].status = 200)

\* C18 witness: a read returned while the updater, its connection in hand,
\* was in the middle of its storage reads.
C18_Witness ==
    \E w \in Workers :
        /\ Done(w) /\ wk[w].kind = "status" /\ wk[w].status = 200 /\ ~wk[w].stale
        /\ upd.pc = "read_tt" /\ upd.conn /\ upd.live

\* C19: the updater dies without the write lock and without a connection;
\* dead, it stays dead, and the snapshot stays what it was; a read can
\* take the read lock, and a read that returns answers 200 with that
\* snapshot.
C19_DeadUpdaterLeavesCacheReadable ==
    [][upd.pc = "dead" =>
          /\ ~wlock /\ ~upd.conn /\ CanReadLock /\ panic_notify
          /\ upd'.pc = "dead"
          /\ network_status' = network_status /\ ~wlock'
          /\ \A w \in Workers :
                (wk[w].pc = "locked" /\ wk'[w].pc # "locked") =>
                    /\ wk'[w].pc = "done" /\ wk'[w].status = 200
                    /\ wk'[w].body = network_status
      ]_vars

\* C19 witness: the updater died after it had published, and a reader
\* holds the published snapshot, whole, under the read lock.
C19_Witness ==
    /\ upd.pc = "dead" /\ upd.live /\ network_status # ZeroSnapshot
    /\ \E w \in Workers :
          wk[w].pc = "locked" /\ wk[w].k = Len(StatusFields) /\ wk[w].copy = network_status

\* The handlers in flight: a request taken and no response yet.
InFlight == {w \in Workers : wk[w].pc \in {"locked", "query", "waiting"}}

\* The connections the API server holds.
ConnsInUse == UpdaterConns + WorkerConns

\* C20: the updater has no connection while it waits for a tick or for a
\* connection, nor when dead; a handler has a connection only while in
\* flight, whatever the status it answers; the connections in use are at
\* most the handlers in flight plus one, none when no handler is in flight
\* and the updater waits for its tick, and never more than the pool has.
C20_NoConnectionLeak ==
    /\ upd.pc \in {"tick", "acquire", "dead"} => ~upd.conn
    /\ \A w \in Workers : wk[w].conn => (w \in InFlight /\ wk[w].pc = "query")
    /\ \A w \in Workers : wk[w].pc \in {"idle", "done", "panicked"} => ~wk[w].conn
    /\ ConnsInUse <= Cardinality(InFlight) + 1
    /\ (InFlight = {} /\ upd.pc = "tick") => ConnsInUse = 0
    /\ FreeConns >= 0

\* C20 witness: a handler that held a connection answered 404 and holds
\* none, after a refresh cycle that held one has ended; nothing is in use.
C20_Witness ==
    /\ \E w \in Workers :
          /\ Done(w) /\ wk[w].status = 404 /\ wk[w].queries = 1 /\ ~wk[w].conn
    /\ CyclePublished /\ ConnsInUse = 0

====
